---- MODULE Spec2Model ----
(***************************************************************************)
(* CompressedTensorsW8A8: INT8 weights (per-tensor or per-channel scales)  *)
(* with static or dynamic INT8 activation quantization.                    *)
(*                                                                         *)
(* The state is the scheme object (strategy, is_static_input_scheme,       *)
(* logical_widths), the layer's three parameters (weight, weight_scale,    *)
(* input_scale), the host's position in the layer's life cycle, and the    *)
(* position of every caller that is inside apply_weights.                  *)
(*                                                                         *)
(* A tensor is a record [kind, shape, data]: data is the scalar itself for *)
(* a 0-dim tensor, a sequence for a 1-D tensor and a sequence of rows for  *)
(* a 2-D tensor.  float32 scale values are small naturals (units of one    *)
(* quantum); int8 weight elements are integers wrapped to -128..127.       *)
(***************************************************************************)
EXTENDS Integers, Sequences, FiniteSets, TLC

\* ------------------------------------------------------------------ bounds
MaxParts == 3
MaxWidth == 2
MaxInputSize == 2
MaxScale == 2
MaxBatch == 2
MaxFinalize == 2
NThreads == 2

\* ------------------------------------------------------------- input sets
TENSOR == "tensor"
CHANNEL == "channel"
QuantizationStrategy == {TENSOR, CHANNEL}

RECURSIVE WidthLists(_)
WidthLists(n) ==
    IF n = 0 THEN {<<>>}
    ELSE {Append(l, w) : l \in WidthLists(n - 1), w \in 1..MaxWidth}

\* output_partition_sizes: non-empty lists of positive widths
PartitionSizes == UNION {WidthLists(n) : n \in 1..MaxParts}

ScaleValues == 1..MaxScale
\* what a torch.empty buffer may hold before anything is written to it
GarbageFloats == {0, MaxScale}
GarbageInt8 == {0, -1}
\* first element of the weight the loader copies in (row-major, consecutive)
WeightBases == {120}
Dtypes == {"float16", "bfloat16"}
Threads == 1..NThreads

\* ---------------------------------------------------------------- tensors
NoneValue == [kind |-> "None"]

Tensor(shape, data) == [kind |-> "Tensor", shape |-> shape, data |-> data]

Error(what) == [kind |-> "Error", what |-> what]

IsError(v) == v.kind = "Error"

RECURSIVE sum(_)
sum(widths) ==
    IF widths = <<>> THEN 0 ELSE Head(widths) + sum(Tail(widths))

Int8(v) == ((v + 128) % 256) - 128

\* torch.empty(n): n elements of whatever the buffer held
Empty1(n, g) == Tensor(<<n>>, [i \in 1..n |-> g])

\* torch.empty(r, c)
Empty2(r, c, g) == Tensor(<<r, c>>, [i \in 1..r |-> [j \in 1..c |-> g]])

\* torch.empty(*shape) for the one- and two-dimensional shapes used here
Empty(shape, g) ==
    IF Len(shape) = 1 THEN Empty1(shape[1], g)
    ELSE Empty2(shape[1], shape[2], g)

\* t[idx], idx counted from 0 as in Python
Index(t, idx) ==
    IF Len(t.shape) = 0 \/ idx < 0 \/ idx >= t.shape[1]
    THEN Error("IndexError")
    ELSE Tensor(Tail(t.shape), t.data[idx + 1])

\* torch broadcasting of a value of shape src into a 2-D region of shape dst
Broadcastable(src, dst) ==
    /\ Len(src) <= 2
    /\ \A k \in 1..Len(src) :
          \/ src[Len(src) - k + 1] = 1
          \/ src[Len(src) - k + 1] = dst[2 - k + 1]

BroadcastAt(val, i, j) ==
    CASE Len(val.shape) = 0 -> val.data
      [] Len(val.shape) = 1 ->
            val.data[IF val.shape[1] = 1 THEN 1 ELSE j]
      [] OTHER ->
            val.data[IF val.shape[1] = 1 THEN 1 ELSE i]
                    [IF val.shape[2] = 1 THEN 1 ELSE j]

\* buf[start:end, :] = val   (start, end counted from 0, end exclusive)
SliceAssign(buf, start, end, val) ==
    IF IsError(val) THEN val
    ELSE IF ~Broadcastable(val.shape, <<end - start, buf.shape[2]>>)
    THEN Error("RuntimeError")
    ELSE Tensor(buf.shape,
                [i \in 1..buf.shape[1] |->
                    IF i > start /\ i <= end
                    THEN [j \in 1..buf.shape[2] |->
                             BroadcastAt(val, i - start, j)]
                    ELSE buf.data[i]])

\* tensor.t()
TransposeIdentity(t) == t

Transpose(t) ==
    IF Len(t.shape) < 2 THEN t
    ELSE Tensor(<<t.shape[2], t.shape[1]>>,
                [j \in 1..t.shape[2] |->
                    [i \in 1..t.shape[1] |-> t.data[i][j]]])

\* ------------------------------------------------------------------ state
VARIABLES
    strategy,                \* self.strategy
    is_static_input_scheme,  \* self.is_static_input_scheme
    logical_widths,          \* self.logical_widths (<<>> until create_weights)
    layer,                   \* layer.weight, layer.weight_scale, layer.input_scale
    call_args,               \* the arguments create_weights was called with
    phase,                   \* "constructed", "allocated", "loaded"
    nfinal,                  \* completed process_weights_after_loading calls
    checkpoint,              \* the tensors the loader copied into the layer
    raised,                  \* exception raised by process_weights_after_loading
    pc,                      \* per caller: "idle", "quantized", "returned"
    x,                       \* per caller: the activation of its apply_weights
    quant,                   \* per caller: (x_q, x_scale) from scaled_int8_quant
    gemm                     \* per caller: the cutlass_scaled_mm call and result

scheme_vars == <<strategy, is_static_input_scheme, logical_widths>>
host_vars == <<call_args, phase, nfinal, checkpoint, raised>>
caller_vars == <<pc, x, quant, gemm>>
vars == <<scheme_vars, layer, host_vars, caller_vars>>

\* ------------------------------------------------------------- __init__
Init ==
    /\ strategy \in QuantizationStrategy
    /\ is_static_input_scheme \in BOOLEAN
    /\ logical_widths = <<>>
    /\ layer = [weight |-> NoneValue, weight_scale |-> NoneValue,
                input_scale |-> NoneValue]
    /\ call_args = NoneValue
    /\ phase = "constructed"
    /\ nfinal = 0
    /\ checkpoint = NoneValue
    /\ raised = "none"
    /\ pc = [t \in Threads |-> "idle"]
    /\ x = [t \in Threads |-> NoneValue]
    /\ quant = [t \in Threads |-> NoneValue]
    /\ gemm = [t \in Threads |-> NoneValue]

\* -------------------------------------------------------- create_weights
WeightScaleShapeSwapped(strat, widths) ==
    IF strat = CHANNEL THEN <<Len(widths)>> ELSE <<sum(widths), 1>>

WeightScaleShape(strat, widths) ==
    IF strat = CHANNEL THEN <<sum(widths), 1>> ELSE <<Len(widths)>>

WeightShapeSwapped(output_partition_sizes, input_size_per_partition) ==
    <<input_size_per_partition, sum(output_partition_sizes)>>

WeightShape(output_partition_sizes, input_size_per_partition) ==
    <<sum(output_partition_sizes), input_size_per_partition>>

InputScaleParam(is_static, g) ==
    IF is_static THEN Empty1(1, g) ELSE NoneValue

\* gw, gs, gi: what the three torch.empty buffers hold
create_weights ==
    /\ phase = "constructed"
    /\ \E output_partition_sizes \in PartitionSizes,
          input_size_per_partition \in 1..MaxInputSize,
          gw \in GarbageInt8, gs \in GarbageFloats, gi \in GarbageFloats :
          /\ logical_widths' = output_partition_sizes
          /\ layer' =
               [weight |->
                    Empty(WeightShape(output_partition_sizes,
                                      input_size_per_partition), gw),
                weight_scale |->
                    Empty(WeightScaleShape(strategy, logical_widths'), gs),
                input_scale |-> InputScaleParam(is_static_input_scheme, gi)]
          /\ call_args' =
               [output_partition_sizes |-> output_partition_sizes,
                input_size_per_partition |-> input_size_per_partition]
    /\ phase' = "allocated"
    /\ UNCHANGED <<strategy, is_static_input_scheme, nfinal, checkpoint,
                   raised, caller_vars>>

\* ---------------------------------------------------------- weight_loader
\* The loader copies values into the registered parameters and keeps their
\* shapes.
LoadedWeight(shape, base) ==
    Tensor(shape,
           [i \in 1..shape[1] |->
               [j \in 1..shape[2] |->
                   Int8(base + (i - 1) * shape[2] + (j - 1))]])

PerTensorScales(n) == {Tensor(<<n>>, f) : f \in [1..n -> ScaleValues]}

PerChannelScales(n) ==
    {Tensor(<<n, 1>>,
            [r \in 1..n |-> <<1 + ((step * (r - 1) + off) % MaxScale)>>]) :
        step \in 0..1, off \in {0}}

LoadableScales(shape) ==
    IF Len(shape) = 1 THEN PerTensorScales(shape[1])
    ELSE PerChannelScales(shape[1])

LoadableInputScales(param) ==
    IF param.kind = "None" THEN {NoneValue}
    ELSE {Tensor(<<1>>, <<v>>) : v \in ScaleValues}

weight_loader ==
    /\ phase = "allocated"
    /\ \E base \in WeightBases,
          ws \in LoadableScales(layer.weight_scale.shape),
          is \in LoadableInputScales(layer.input_scale) :
          /\ layer' = [weight |-> LoadedWeight(layer.weight.shape, base),
                       weight_scale |-> ws,
                       input_scale |-> is]
          /\ checkpoint' = layer'
    /\ phase' = "loaded"
    /\ UNCHANGED <<scheme_vars, call_args, nfinal, raised, caller_vars>>

\* ---------------------------------------- process_weights_after_loading
NeedsExpansionAnyTensor(strat, widths) == strat = TENSOR

NeedsExpansionOnce(strat, widths) ==
    strat = TENSOR /\ Len(widths) > 1 /\ Len(layer.weight_scale.shape) = 1

NeedsExpansion(strat, widths) ==
    strat = TENSOR /\ Len(widths) > 1

\* the loop over enumerate(self.logical_widths) with start never advanced
RECURSIVE FillScalesNoAdvance(_, _, _, _, _)
FillScalesNoAdvance(buf, weight_scale, widths, idx, start) ==
    IF idx >= Len(widths) THEN buf
    ELSE LET end == start + widths[idx + 1]
             filled == SliceAssign(buf, start, end, Index(weight_scale, idx))
         IN  IF IsError(filled) THEN filled
             ELSE FillScalesNoAdvance(filled, weight_scale, widths,
                                      idx + 1, start)

\* the loop over enumerate(self.logical_widths), from iteration idx on
RECURSIVE FillScales(_, _, _, _, _)
FillScales(buf, weight_scale, widths, idx, start) ==
    IF idx >= Len(widths) THEN buf
    ELSE LET end == start + widths[idx + 1]
             filled == SliceAssign(buf, start, end, Index(weight_scale, idx))
         IN  IF IsError(filled) THEN filled
             ELSE FillScales(filled, weight_scale, widths, idx + 1, end)

\* weight_scale_channel after the loop; g is what torch.empty handed out
ExpandedScale(weight_scale, widths, g) ==
    FillScales(Empty2(sum(widths), 1, g), weight_scale, widths, 0, 0)

WeightAfterLoadingOnce(weight) ==
    IF nfinal = 0 THEN Transpose(weight) ELSE weight

WeightAfterLoading(weight) == Transpose(weight)

process_weights_after_loading ==
    /\ phase = "loaded"
    /\ nfinal < MaxFinalize
    /\ raised = "none"
    /\ \E g \in GarbageFloats :
          LET new_scale ==
                 IF NeedsExpansion(strategy, logical_widths)
                 THEN ExpandedScale(layer.weight_scale, logical_widths, g)
                 ELSE layer.weight_scale
          IN  IF IsError(new_scale)
              THEN /\ raised' = new_scale.what
                   /\ UNCHANGED <<layer, nfinal>>
              ELSE /\ layer' = [layer EXCEPT
                                   !.weight_scale = new_scale,
                                   !.weight = WeightAfterLoading(layer.weight)]
                   /\ nfinal' = nfinal + 1
                   /\ UNCHANGED raised
    /\ UNCHANGED <<scheme_vars, call_args, phase, checkpoint, caller_vars>>

\* ----------------------------------------------------------- apply_weights
\* An activation is known by its shape, its element type and the largest
\* magnitude it holds (its value range).
Activations ==
    {[kind |-> "Tensor", shape |-> <<m, k>>, dtype |-> d, absmax |-> a] :
        m \in 1..MaxBatch, k \in 1..MaxInputSize, d \in Dtypes,
        a \in 1..MaxScale}

numel(t) ==
    IF Len(t.shape) = 0 THEN 1
    ELSE IF Len(t.shape) = 1 THEN t.shape[1]
    ELSE t.shape[1] * t.shape[2]

\* ops.scaled_int8_quant(input, scale): a given scale is echoed back, an
\* absent one is computed from the range of the input
scaled_int8_quant(input, scale) ==
    [x_q |-> [kind |-> "Tensor", shape |-> input.shape, dtype |-> "int8"],
     x_scale |-> IF scale.kind = "None"
                 THEN Tensor(<<1>>, <<input.absmax>>)
                 ELSE scale]

\* ops.cutlass_scaled_mm(a, b, scale_a, scale_b, out_dtype): scale_b is one
\* global scalar or one scalar per output row of the weight
cutlass_scaled_mm(a, b, scale_a, scale_b, out_dtype) ==
    IF Len(b.shape) # 2 \/ a.shape[2] # b.shape[1]
    THEN Error("RuntimeError")
    ELSE IF numel(scale_b) # 1 /\ numel(scale_b) # b.shape[2]
    THEN Error("RuntimeError")
    ELSE [kind |-> "Tensor", shape |-> <<a.shape[1], b.shape[2]>>,
          dtype |-> out_dtype]

QuantScaleArgNone(l) == NoneValue

\* the scale argument of ops.scaled_int8_quant
QuantScaleArg(l) == l.input_scale

OutDtypeFloat32(activation) == "float32"

\* the out_dtype argument of ops.cutlass_scaled_mm
OutDtype(activation) == activation.dtype

LayerAfterApplyCached(l, x_scale) == [l EXCEPT !.input_scale = x_scale]

\* apply_weights assigns no attribute of the layer
LayerAfterApply(l, x_scale) == l

\* x_q, x_scale = ops.scaled_int8_quant(x, layer.input_scale)
apply_weights_quant(t) ==
    /\ phase = "loaded"
    /\ nfinal >= 1
    /\ pc[t] \in {"idle", "returned"}
    \* the caller's contract: the last dimension is the weight's input size
    /\ \E activation \in
             {a \in Activations :
                 a.shape[2] = call_args.input_size_per_partition} :
          /\ x' = [x EXCEPT ![t] = activation]
          /\ quant' = [quant EXCEPT ![t] =
                          scaled_int8_quant(activation, QuantScaleArg(layer))]
    /\ gemm' = [gemm EXCEPT ![t] = NoneValue]
    /\ pc' = [pc EXCEPT ![t] = "quantized"]
    /\ UNCHANGED <<scheme_vars, layer, host_vars>>

\* return ops.cutlass_scaled_mm(x_q, layer.weight, ...)
apply_weights_gemm(t) ==
    /\ pc[t] = "quantized"
    /\ gemm' = [gemm EXCEPT ![t] =
                  [b_shape |-> layer.weight.shape,
                   scale_a |-> quant[t].x_scale,
                   scale_b |-> layer.weight_scale,
                   out |-> cutlass_scaled_mm(quant[t].x_q, layer.weight,
                                             quant[t].x_scale,
                                             layer.weight_scale,
                                             OutDtype(x[t]))]]
    /\ layer' = LayerAfterApply(layer, quant[t].x_scale)
    /\ pc' = [pc EXCEPT ![t] = "returned"]
    /\ UNCHANGED <<scheme_vars, host_vars, x, quant>>

\* ------------------------------------------------------------ specification
\* the single-threaded model-preparation phase, before any apply traffic
NextPrepare ==
    \/ create_weights
    \/ weight_loader
    \/ process_weights_after_loading

SpecPrepare == Init /\ [][NextPrepare]_vars

\* preparation followed by apply_weights calls from several callers
Next ==
    \/ NextPrepare
    \/ \E t \in Threads : apply_weights_quant(t)
    \/ \E t \in Threads : apply_weights_gemm(t)

Spec == Init /\ [][Next]_vars

\* ------------------------------------------------------------------ claims
\* rows before logical block i (blocks counted from 1)
Offset(i) == sum(SubSeq(logical_widths, 1, i - 1))

\* rows of logical block i (rows counted from 1)
RowsOf(i) == (Offset(i) + 1)..(Offset(i) + logical_widths[i])

\* the logical block that holds row r
BlockOfRow(r) == CHOOSE i \in 1..Len(logical_widths) : r \in RowsOf(i)

Blocks == 1..Len(logical_widths)

Fused == strategy = TENSOR /\ Len(logical_widths) > 1

input_size == call_args.input_size_per_partition

\* C1: under TENSOR strategy with more than one logical width, one
\* process_weights_after_loading raises nothing and leaves weight_scale of
\* shape (sum(logical_widths), 1) whose every row of block i holds the loaded
\* per-block scale weight_scale[i]: no row keeps what torch.empty handed out
\* and no row holds another block's scale.
C1_ExpandedPerBlock ==
    (phase = "loaded" /\ Fused) =>
        /\ raised = "none"
        /\ nfinal = 1 =>
              /\ layer.weight_scale.shape = <<sum(logical_widths), 1>>
              /\ DOMAIN layer.weight_scale.data = 1..sum(logical_widths)
              /\ \A i \in Blocks : \A r \in RowsOf(i) :
                    layer.weight_scale.data[r] =
                        <<checkpoint.weight_scale.data[i]>>

C1_Witness ==
    /\ Fused
    /\ nfinal = 1
    /\ logical_widths = <<2, 1, 2>>
    /\ checkpoint.weight_scale.data = <<1, 2, 1>>
    /\ layer.weight_scale.data = <<<<1>>, <<1>>, <<2>>, <<1>>, <<1>>>>

\* C2: process_weights_after_loading changes weight_scale if and only if the
\* strategy is TENSOR and there is more than one logical width; with one
\* logical width under TENSOR the scale stays the loaded tensor of shape (1,),
\* and under CHANNEL it keeps shape (sum(logical_widths), 1) and every loaded
\* per-row value.
C2_ScaleFrame ==
    nfinal >= 1 =>
        /\ nfinal = 1 =>
              ((layer.weight_scale # checkpoint.weight_scale) <=>
                  (strategy = TENSOR /\ Len(logical_widths) > 1))
        /\ (strategy = TENSOR /\ Len(logical_widths) = 1) =>
              /\ layer.weight_scale = checkpoint.weight_scale
              /\ layer.weight_scale.shape = <<1>>
        /\ strategy = CHANNEL =>
              /\ layer.weight_scale = checkpoint.weight_scale
              /\ layer.weight_scale.shape = <<sum(logical_widths), 1>>

C2_Witness ==
    /\ nfinal = 1
    /\ strategy = TENSOR
    /\ logical_widths = <<2>>
    /\ layer.weight_scale = Tensor(<<1>>, <<2>>)

\* C3: for every strategy and every logical_widths, one
\* process_weights_after_loading leaves the weight with shape
\* (input_size, sum(logical_widths)) and weight'[j][i] = weight[i][j] for
\* the loaded weight, whether or not the scales were expanded.
C3_Transposed ==
    nfinal = 1 =>
        /\ layer.weight.shape = <<input_size, sum(logical_widths)>>
        /\ layer.weight.shape = <<checkpoint.weight.shape[2],
                                  checkpoint.weight.shape[1]>>
        /\ DOMAIN layer.weight.data = 1..input_size
        /\ \A j \in 1..input_size :
              /\ DOMAIN layer.weight.data[j] = 1..sum(logical_widths)
              /\ \A i \in 1..sum(logical_widths) :
                    layer.weight.data[j][i] = checkpoint.weight.data[i][j]

C3_Witness ==
    /\ nfinal = 1
    /\ strategy = CHANNEL
    /\ logical_widths = <<2, 1>>
    /\ input_size = 2
    /\ layer.weight.data[2][3] = checkpoint.weight.data[3][2]
    /\ layer.weight.data[2][3] # layer.weight.data[1][3]

\* C4: create_weights leaves weight of shape (sum(logical_widths),
\* input_size), weight_scale of shape (sum(logical_widths), 1) under CHANNEL
\* and (len(logical_widths),) otherwise, input_scale a one-element tensor
\* when is_static_input_scheme and None otherwise, and logical_widths equal
\* to the output_partition_sizes it was given.
C4_AllocatedLayout ==
    phase = "allocated" =>
        /\ logical_widths = call_args.output_partition_sizes
        /\ layer.weight.kind = "Tensor"
        /\ layer.weight.shape =
              <<sum(call_args.output_partition_sizes), input_size>>
        /\ layer.weight_scale.kind = "Tensor"
        /\ layer.weight_scale.shape =
              IF strategy = CHANNEL
              THEN <<sum(call_args.output_partition_sizes), 1>>
              ELSE <<Len(call_args.output_partition_sizes)>>
        /\ is_static_input_scheme =>
              /\ layer.input_scale.kind = "Tensor"
              /\ layer.input_scale.shape = <<1>>
        /\ ~is_static_input_scheme => layer.input_scale = NoneValue

C4_Witness ==
    /\ phase = "allocated"
    /\ strategy = TENSOR
    /\ ~is_static_input_scheme
    /\ call_args.output_partition_sizes = <<2, 2, 1>>
    /\ layer.weight_scale.shape = <<3>>
    /\ layer.weight.shape = <<5, 2>>

\* C5: in static mode apply_weights never computes a scale from the
\* activation: in every call the scale returned by the quantize primitive,
\* and the scale_a handed to the GEMM, is the stored layer.input_scale, the
\* one the loader wrote, whatever the activation.
C5_StaticScalePassedThrough ==
    is_static_input_scheme =>
        \A t \in Threads :
            /\ pc[t] \in {"quantized", "returned"} =>
                  /\ quant[t].x_scale = layer.input_scale
                  /\ quant[t].x_scale = checkpoint.input_scale
            /\ pc[t] = "returned" =>
                  /\ gemm[t].scale_a = layer.input_scale
                  /\ gemm[t].scale_a = checkpoint.input_scale

C5_Witness ==
    /\ is_static_input_scheme
    /\ pc[1] = "returned"
    /\ pc[2] = "returned"
    /\ x[1].absmax # x[2].absmax
    /\ layer.input_scale = Tensor(<<1>>, <<1>>)
    /\ gemm[1].scale_a = gemm[2].scale_a

\* C6: no step of an apply_weights call, of any caller and in any
\* interleaving, changes weight, weight_scale or input_scale: the layer's
\* tensors change only in create_weights, in the loader and in
\* process_weights_after_loading.
C6_ApplyLeavesLayer ==
    [][/\ (pc' # pc) => (layer' = layer)
       /\ (layer' # layer) =>
             /\ pc' = pc
             /\ phase' # phase \/ nfinal' = nfinal + 1]_vars

C6_Witness ==
    /\ nfinal = 1
    /\ pc[1] = "quantized"
    /\ pc[2] = "returned"
    /\ layer.weight = Transpose(checkpoint.weight)
    /\ layer.input_scale = checkpoint.input_scale

\* C7: the GEMM of an apply_weights call made after exactly one
\* process_weights_after_loading, on an activation whose last dimension is
\* input_size, receives the weight of shape (input_size,
\* sum(logical_widths)) and returns a tensor with the activation's leading
\* dimension, trailing dimension sum(logical_widths) and the activation's
\* element type.
C7_OutputShapeAndType ==
    [][\A t \in Threads :
          (/\ pc[t] = "quantized"
           /\ pc'[t] = "returned"
           /\ nfinal = 1
           /\ x[t].shape[2] = input_size) =>
              /\ gemm'[t].b_shape = <<input_size, sum(logical_widths)>>
              /\ gemm'[t].out = [kind |-> "Tensor",
                                 shape |-> <<x[t].shape[1],
                                             sum(logical_widths)>>,
                                 dtype |-> x[t].dtype]]_vars

C7_Witness ==
    /\ nfinal = 1
    /\ pc[1] = "returned"
    /\ x[1].shape = <<2, 1>>
    /\ x[1].dtype = "bfloat16"
    /\ logical_widths = <<1, 2>>
    /\ gemm[1].out = [kind |-> "Tensor", shape |-> <<2, 3>>,
                      dtype |-> "bfloat16"]

\* C8 as stated: sum(logical_widths) is the first dimension of the stored
\* weight in every state from create_weights onward.
C8_SumIsWeightRows ==
    phase # "constructed" => sum(logical_widths) = layer.weight.shape[1]

\* C8 amended: sum(logical_widths) is the first dimension of the stored
\* weight from create_weights until process_weights_after_loading; after one
\* process_weights_after_loading, and through any number of apply_weights
\* calls, it is the second dimension (each further call swaps the two again).
C8_SumIsOutputDim ==
    phase # "constructed" =>
        /\ nfinal % 2 = 0 =>
              layer.weight.shape = <<sum(logical_widths), input_size>>
        /\ nfinal % 2 = 1 =>
              layer.weight.shape = <<input_size, sum(logical_widths)>>

C8_Witness ==
    /\ nfinal = 1
    /\ \A t \in Threads : pc[t] = "returned"
    /\ sum(logical_widths) = 3
    /\ layer.weight.shape = <<2, 3>>

\* C9: a second process_weights_after_loading raises nothing, for any
\* strategy and any logical_widths, and transposes the weight again: after
\* two calls the stored weight has the shape (sum(logical_widths),
\* input_size) and the elements the loader wrote.
C9_DoubleFinalizeRestoresWeight ==
    /\ raised = "none"
    /\ nfinal = 2 =>
          /\ layer.weight.shape = <<sum(logical_widths), input_size>>
          /\ layer.weight = checkpoint.weight

C9_Witness ==
    /\ nfinal = 2
    /\ raised = "none"
    /\ logical_widths = <<2, 1>>
    /\ input_size = 2
    /\ layer.weight = checkpoint.weight
    /\ layer.weight # Transpose(checkpoint.weight)

\* the scale every row holds after one expansion of the loaded scales
FirstExpansion ==
    [r \in 1..sum(logical_widths) |->
        <<checkpoint.weight_scale.data[BlockOfRow(r)]>>]

\* C10: under TENSOR strategy with more than one logical width, a second
\* process_weights_after_loading keeps shape (sum(logical_widths), 1) and
\* gives every row of block i the loaded scale of the block that holds row
\* index i (rows and blocks counted from 0); the result equals the first
\* expansion exactly when, for every block i, the block holding row index i
\* has the same loaded scale as block i.
C10_SecondExpansionReadsRows ==
    (Fused /\ nfinal = 2) =>
        /\ layer.weight_scale.shape = <<sum(logical_widths), 1>>
        /\ DOMAIN layer.weight_scale.data = 1..sum(logical_widths)
        /\ \A i \in Blocks : \A r \in RowsOf(i) :
              layer.weight_scale.data[r] =
                  <<checkpoint.weight_scale.data[BlockOfRow(i)]>>
        /\ (layer.weight_scale.data = FirstExpansion) <=>
              (\A i \in Blocks :
                  checkpoint.weight_scale.data[BlockOfRow(i)] =
                      checkpoint.weight_scale.data[i])

C10_Witness ==
    /\ Fused
    /\ nfinal = 2
    /\ logical_widths = <<2, 2, 2>>
    /\ checkpoint.weight_scale.data = <<1, 2, 1>>
    /\ layer.weight_scale.data =
          <<<<1>>, <<1>>, <<1>>, <<1>>, <<2>>, <<2>>>>
    /\ layer.weight_scale.data # FirstExpansion

====
